---- MODULE Spec2Model ----
(***************************************************************************)
(* Model of bot.py: the issue-resolving script.  One invocation of the     *)
(* script searches for an issue, runs process_issue on it and records the  *)
(* issue URL in processed_issues.json.                                     *)
(*                                                                         *)
(* Paths are sequences of tokens: the separators "/" and "." and the       *)
(* maximal runs of other characters between them, so "src/main.py" is      *)
(* <<"src", "/", "main", ".", "py">>.  The regular expressions and string  *)
(* tests of is_safe_to_modify only look at separators and whole runs, so   *)
(* they are computed on tokens exactly as the code computes them on        *)
(* characters.                                                             *)
(***************************************************************************)
EXTENDS Naturals, Integers, Sequences, FiniteSets, TLC

VARIABLES
    processedFile,   \* processed_issues.json: [kind, urls]
    pc,              \* position of the script: "start", a stage of process_issue, "finally", "end"
    invocation,      \* number of the current script invocation
    issue,           \* issue_to_process (NoIssue when find_github_issues returned None)
    taskType,        \* result of classify_task
    tempDir,         \* the temporary clone directory: "none", "exists", "removed"
    repoContext,     \* keys of repo_context["files"]
    plan,            \* [files, steps]: the paths of plan["files"], and whether "steps" is there
    implementations, \* keys of the implementations dict of the current round, in insertion order
    reviews,         \* reviews dict: path -> [rri, summary, refined]
    written,         \* paths apply_changes wrote to in this run
    committed,       \* git commit ran in this run
    pushed,          \* git push ran in this run
    prRequested,     \* the POST to /pulls was sent in this run
    outcome,         \* how process_issue ended: "none", "returned", "raised"
    stages,          \* history: stages of process_issue executed in this run, in order
    llmRaised,       \* history: stages whose model call raised in this run
    implCalls,       \* history: calls of implement_changes in this run
    critCalls,       \* history: calls of critique_and_refine in this run
    firstNeeds,      \* history: needs_re_implementation computed from the first reviews
    implFailedAll,   \* history: some implement_changes call produced no implementation
    processCalls,    \* history: process_issue calls per issue URL, all invocations
    runProcess,      \* history: process_issue calls in this invocation
    runAdds,         \* history: add_issue_to_processed calls in this invocation
    modifiedFiles,   \* modified_files of the pull-request body: [bound, files]
    path,            \* argument of a stand-alone is_safe_to_modify call
    safe,            \* its result: "unchecked", "safe", "unsafe"
    input,           \* arguments of a stand-alone call of another function
    output,          \* its result, <<>> before the call
    clock,           \* time.time(), in seconds
    rateLimiter,     \* the RateLimiter object: [flash_requests, pro_requests]
    requestStarts    \* history: the times at which wait_if_needed returned

vars == <<processedFile, pc, invocation, issue, taskType, tempDir,
          repoContext, plan, implementations, reviews, written, committed,
          pushed, prRequested, outcome, stages, llmRaised, implCalls,
          critCalls, firstNeeds, implFailedAll, processCalls, runProcess,
          runAdds, modifiedFiles, path, safe, input, output, clock,
          rateLimiter, requestStarts>>

----------------------------------------------------------------------------
(* Bounds *)

\* directories in front of the file name in the paths is_safe_to_modify is tried on
MaxDepth == 2

----------------------------------------------------------------------------
(* Config.__post_init__ *)

SAFE_FILE_EXTENSIONS ==
    {"py", "js", "ts", "md", "txt", "html", "css", "json", "yaml", "yml",
     "toml", "ini", "cfg", "conf", "xml", "java", "cpp", "c", "h", "hpp",
     "rs", "go", "rb", "php", "sh", "bash", "zsh", "ps1", "bat"}

\* the alternatives of UNSAFE_FILE_PATTERNS[0]: \.(key|pem|...)$
UnsafeExtensions ==
    {"key", "pem", "p12", "pfx", "crt", "cer", "pub", "priv", "env",
     "secret", "token"}

\* the alternatives of UNSAFE_FILE_PATTERNS[1]: /(\.env|\.aws|\.ssh)/
UnsafeDotDirs == {"env", "aws", "ssh"}

BLACKLISTED_DIRS ==
    {<<"node_modules">>, <<"__pycache__">>, <<".", "git">>, <<"venv">>,
     <<"dist">>, <<"build">>, <<"target">>, <<".", "idea">>,
     <<".", "vscode">>}

UNSAFE_FILE_NAMES ==
    {<<".", "env">>, <<"secrets", ".", "json">>,
     <<"config", ".", "prod", ".", "json">>, <<"private", ".", "key">>,
     <<"service-account", ".", "json">>}

\* known_configs of is_safe_to_modify
KnownConfigs ==
    {<<"Dockerfile">>, <<"Makefile">>, <<"docker-compose", ".", "yml">>,
     <<"README">>, <<"LICENSE">>}

----------------------------------------------------------------------------
(* String helpers on token sequences *)

\* str.lower() / re.IGNORECASE on one run of characters (the upper-case
\* runs that occur in the paths of this model)
Lower(w) ==
    CASE w = "PEM" -> "pem"
      [] w = "SSH" -> "ssh"
      [] w = "PY" -> "py"
      [] w = "ENV" -> "env"
      [] OTHER -> w

\* index of the last "/" token of p, 0 when there is none
LastSlash(p) ==
    IF \E i \in 1..Len(p) : p[i] = "/"
    THEN CHOOSE i \in 1..Len(p) :
            /\ p[i] = "/"
            /\ \A j \in (i+1)..Len(p) : p[j] # "/"
    ELSE 0

\* os.path.basename: what follows the last "/"
Basename(p) == SubSeq(p, LastSlash(p) + 1, Len(p))

\* the components of p: the pieces between "/" tokens, in order
RECURSIVE SplitPath(_)
SplitPath(p) ==
    IF \A i \in 1..Len(p) : p[i] # "/"
    THEN <<p>>
    ELSE LET k == CHOOSE i \in 1..Len(p) :
                     p[i] = "/" /\ \A j \in 1..(i-1) : p[j] # "/"
         IN  <<SubSeq(p, 1, k - 1)>> \o SplitPath(SubSeq(p, k + 1, Len(p)))

\* the components joined by "/"
RECURSIVE JoinPath(_)
JoinPath(cs) ==
    IF Len(cs) = 0 THEN <<>>
    ELSE IF Len(cs) = 1 THEN cs[1]
    ELSE cs[1] \o <<"/">> \o JoinPath(Tail(cs))

\* pathlib's PurePath.suffix of a path that does not end in "/": the last
\* "." of the name and what follows it, unless that "." is the first or the
\* last character of the name; <<>> when there is no suffix
Suffix(p) ==
    LET name == Basename(p)
        dots == {i \in 1..Len(name) : name[i] = "."}
    IN  IF dots = {} THEN <<>>
        ELSE LET i == CHOOSE d \in dots : \A e \in dots : e <= d
             IN  IF 1 < i /\ i < Len(name)
                 THEN SubSeq(name, i, Len(name))
                 ELSE <<>>

\* f"/{d}/" in f"/{file_path}/": d has no "/", so the match is a whole component
InBlacklistedDir(p) ==
    \E i \in 1..Len(SplitPath(p)) : SplitPath(p)[i] \in BLACKLISTED_DIRS

\* re.search(r'\.(key|pem|...)$', file_path, re.IGNORECASE)
MatchesUnsafeExtension(p) ==
    /\ Len(p) >= 2
    /\ p[Len(p) - 1] = "."
    /\ Lower(p[Len(p)]) \in UnsafeExtensions

\* re.search(r'/(\.env|\.aws|\.ssh)/', file_path, re.IGNORECASE): the
\* pattern is searched in file_path itself, which has no leading "/"
MatchesUnsafeDotDir(p) ==
    \E i \in 1..(Len(p) - 3) :
        /\ p[i] = "/"
        /\ p[i + 1] = "."
        /\ Lower(p[i + 2]) \in UnsafeDotDirs
        /\ p[i + 3] = "/"

is_safe_to_modify(p) ==
    IF InBlacklistedDir(p) THEN FALSE
    ELSE IF Basename(p) \in UNSAFE_FILE_NAMES THEN FALSE
    ELSE IF MatchesUnsafeExtension(p) \/ MatchesUnsafeDotDir(p) THEN FALSE
    ELSE LET ext == Suffix(p)
         IN  IF /\ ext # <<>>
                /\ Lower(ext[2]) \notin SAFE_FILE_EXTENSIONS
                /\ Basename(p) \notin KnownConfigs
             THEN FALSE
             ELSE TRUE

----------------------------------------------------------------------------
(* Inputs of the stand-alone is_safe_to_modify calls *)

DirNames ==
    BLACKLISTED_DIRS \cup
    {<<".", "env">>, <<".", "aws">>, <<".", "ssh">>, <<".", "SSH">>,
     <<"src">>}

FileNames ==
    {<<"main", ".", "py">>, <<"config">>, <<"id_rsa", ".", "pem">>,
     <<"cert", ".", "PEM">>, <<"secrets", ".", "json">>, <<".", "env">>,
     <<"component", ".", "jsx">>, <<"private", ".", "key">>,
     <<"api", ".", "token">>}

DirSeqs == UNION {[1..n -> DirNames] : n \in 0..MaxDepth}

SafePaths == {JoinPath(ds \o <<f>>) : ds \in DirSeqs, f \in FileNames}

----------------------------------------------------------------------------
(* Bounds and inputs of the pipeline *)

\* script invocations in one behaviour
MaxInvocations == 2

\* items in one search response
MaxItems == 2

\* entries of plan["files"] in a planner response
MaxPlanFiles == 3

MAX_ISSUE_COMMENTS == 5

MIN_ISSUE_BODY_LENGTH == 50

\* valid_files[:2]
MaxPlannedFiles == 2

NoIssue == "none"

Urls == {"u1", "u2"}

\* unsupported_indicators of is_good_issue_candidate
UnsupportedIndicators ==
    {"ui/ux", "design", "mobile", "ios", "android", "illustration", "logo",
     "graphic", "artwork", "translation", "i18n"}

\* A search item.  body is <<>> for a null body and <<n>> for a string of n
\* characters (a missing body reads as the default '' and is <<0>>);
\* title is the set of unsupported indicators that occur in title.lower().
Items ==
    [html_url : Urls,
     comments : {MAX_ISSUE_COMMENTS, MAX_ISSUE_COMMENTS + 1},
     body     : {<<>>, <<0>>, <<MIN_ISSUE_BODY_LENGTH>>},
     title    : {{}, {"ios"}}]

ItemSeqs == UNION {[1..n -> Items] : n \in 0..MaxItems}

\* what requests.get gives find_github_issues
SearchResponses ==
    {[kind |-> "raise", items |-> <<>>], [kind |-> "status", items |-> <<>>]}
    \cup {[kind |-> "ok", items |-> its] : its \in ItemSeqs}

\* paths the model responses name and the clone may hold
RepoPaths ==
    {<<"src", "/", "main", ".", "py">>,
     <<".", "ssh", "/", "config">>,
     <<"node_modules", "/", "lib", ".", "js">>,
     <<"data", ".", "json">>}

PlanSeqs == UNION {[1..n -> RepoPaths] : n \in 0..MaxPlanFiles}

\* a parsed critic response: requires_re_implementation is truthy, and the
\* keys review_summary and refined_code are present
Reviews == [rri : BOOLEAN, summary : BOOLEAN, refined : BOOLEAN]

\* the names process_issue binds before it builds the pull-request body
ProcessIssueLocals ==
    {"issue", "issue_url", "original_repo_full_name", "headers", "task_type",
     "forked_repo_full_name", "temp_dir", "original_repo_url",
     "default_branch", "repo_structure", "relevant_files", "repo_context",
     "plan", "implementations", "reviews", "needs_re_implementation",
     "feedback_context", "final_implementations", "new_branch", "status",
     "commit_msg", "forked_repo_url_with_auth", "repo_info", "base_branch"}

----------------------------------------------------------------------------
(* processed_issues.json *)

FileStates ==
    {[kind |-> "missing", urls |-> {}], [kind |-> "corrupt", urls |-> {}]}
    \cup {[kind |-> "valid", urls |-> us] : us \in SUBSET Urls}

get_processed_issues(f) ==
    IF f.kind = "missing" THEN {}
    ELSE IF f.kind = "corrupt" THEN {}
    ELSE f.urls

\* mutant: the new URL is written without the set read from the file
add_issue_to_processed_Overwrites(f, u) ==
    [kind |-> "valid", urls |-> {u}]

add_issue_to_processed(f, u) ==
    [kind |-> "valid", urls |-> get_processed_issues(f) \cup {u}]

----------------------------------------------------------------------------
(* Issue discovery *)

\* "yes", "no", or "raise" when len(body) is taken of a null body
is_good_issue_candidate(it) ==
    IF it.comments > MAX_ISSUE_COMMENTS THEN "no"
    ELSE IF it.body = <<>> THEN "raise"
    ELSE IF it.body[1] < MIN_ISSUE_BODY_LENGTH THEN "no"
    ELSE IF it.title \cap UnsupportedIndicators # {} THEN "no"
    ELSE "yes"

\* the for loop of find_github_issues; an exception in it is caught and
\* the function returns None
RECURSIVE ScanItems(_, _)
ScanItems(items, processed) ==
    IF items = <<>> THEN NoIssue
    ELSE LET it == Head(items)
         IN  IF it.html_url \in processed
             THEN ScanItems(Tail(items), processed)
             ELSE LET good == is_good_issue_candidate(it)
                  IN  IF good = "yes" THEN it.html_url
                      ELSE IF good = "raise" THEN NoIssue
                      ELSE ScanItems(Tail(items), processed)

\* mutant: the processed set is not consulted
find_github_issues_Forgets(f, resp) ==
    IF resp.kind # "ok" THEN NoIssue
    ELSE ScanItems(resp.items, {})

\* the URL of the issue returned, NoIssue for None
find_github_issues(f, resp) ==
    IF resp.kind # "ok" THEN NoIssue
    ELSE ScanItems(resp.items, get_processed_issues(f))

----------------------------------------------------------------------------
(* The stages of process_issue as functions of the model responses *)

\* A model response is a sequence of tokens: the brackets, the comma, a
\* JSON string literal (v numbers the literal), a JSON number, and prose
\* that is none of these.
LBr == [t |-> "[", v |-> 0]

RBr == [t |-> "]", v |-> 0]

Comma == [t |-> ",", v |-> 0]

Num == [t |-> "num", v |-> 0]

Text == [t |-> "text", v |-> 0]

Str(i) == [t |-> "str", v |-> i]

\* selected_files[:5]
MaxSelectedFiles == 5

\* tokens of a free-form response
MaxRespLen == 4

\* entries of a well-formed list in a response
MaxListLen == 6

\* index of the first token of kind t in toks at or after from, 0 if none
FirstAt(toks, t, from) ==
    IF \E i \in from..Len(toks) : toks[i].t = t
    THEN CHOOSE i \in from..Len(toks) :
            /\ toks[i].t = t
            /\ \A j \in from..(i - 1) : toks[j].t # t
    ELSE 0

\* re.search(r'\[(.*?)\]', response_text, re.DOTALL): group(1) as <<g>>,
\* <<>> when there is no match.  The match starts at the first "[" that has
\* a "]" after it, which is the first "[" when any match exists, and ends
\* at the first "]" after it.
SearchList(toks) ==
    LET i == FirstAt(toks, "[", 1)
        j == IF i = 0 THEN 0 ELSE FirstAt(toks, "]", i + 1)
    IN  IF j = 0 THEN <<>> ELSE <<SubSeq(toks, i + 1, j - 1)>>

\* json.loads of "[" g "]": the values as <<vs>>, <<>> when it raises.
\* g has no "]", so a "[" in it cannot be closed.
LoadsList(g) ==
    IF g = <<>> THEN <<g>>
    ELSE IF /\ Len(g) % 2 = 1
            /\ \A k \in 1..Len(g) :
                  IF k % 2 = 1 THEN g[k].t \in {"str", "num"}
                  ELSE g[k].t = ","
    THEN <<[k \in 1..((Len(g) + 1) \div 2) |-> g[2 * k - 1]]>>
    ELSE <<>>

AllStrings(vs) == \A k \in 1..Len(vs) : vs[k].t = "str"

\* mutant: the list is returned whole
select_relevant_files_Uncut(resp) ==
    IF resp.kind = "raise" THEN <<>>
    ELSE LET m == SearchList(resp.tokens)
         IN  IF m = <<>> THEN <<>>
             ELSE LET l == LoadsList(m[1])
                  IN  IF l = <<>> THEN <<>>
                      ELSE IF AllStrings(l[1]) THEN l[1]
                      ELSE <<>>

\* the list select_relevant_files returns; it catches every exception
select_relevant_files(resp) ==
    IF resp.kind = "raise" THEN <<>>
    ELSE LET m == SearchList(resp.tokens)
         IN  IF m = <<>> THEN <<>>
             ELSE LET l == LoadsList(m[1])
                  IN  IF l = <<>> THEN <<>>
                      ELSE IF AllStrings(l[1])
                      THEN SubSeq(l[1], 1, IF Len(l[1]) < MaxSelectedFiles
                                           THEN Len(l[1])
                                           ELSE MaxSelectedFiles)
                      ELSE <<>>

\* the text of a JSON list of the string literals 1..n
RECURSIVE StrList(_)
StrList(n) ==
    IF n = 0 THEN <<LBr, RBr>>
    ELSE IF n = 1 THEN <<LBr, Str(1), RBr>>
    ELSE SubSeq(StrList(n - 1), 1, Len(StrList(n - 1)) - 1)
         \o <<Comma, Str(n), RBr>>

ResponseTokens == {LBr, RBr, Comma, Num, Text, Str(1)}

\* what the file-selection call gives
SelectResponses ==
    {[kind |-> "raise", tokens |-> <<>>]}
    \cup {[kind |-> "text", tokens |-> ts] :
             ts \in UNION {[1..n -> ResponseTokens] : n \in 0..MaxRespLen}}
    \cup {[kind |-> "text", tokens |-> pre \o StrList(n) \o post] :
             pre \in {<<>>, <<Text>>, <<LBr, Num, RBr>>},
             n \in 0..MaxListLen,
             post \in {<<>>, <<Text>>}}

SupportedTasks == {"BUGFIX", "DOCUMENTATION", "FEATURE", "REFACTOR"}

\* what the classifier call gives: "raise", or response.strip().upper()
ClassifierResponses == {"raise", "BUGFIX", "UNSUPPORTED", "NOT SURE"}

\* mutant: a failed classification falls back to a supported task type
classify_task_DefaultsOnError(resp) ==
    IF resp \in SupportedTasks \/ resp = "raise" THEN "BUGFIX"
    ELSE "UNSUPPORTED"

classify_task(resp) ==
    IF resp = "raise" THEN "UNSUPPORTED"
    ELSE IF resp \in SupportedTasks THEN resp
    ELSE "UNSUPPORTED"

\* mutant: the safety check is left out
get_repo_context_NoSafetyCheck(files, relevant) ==
    {p \in relevant : p \in files}

\* keys of the context: relevant is what select_relevant_files returned,
\* files the regular files of the clone that can be read.  At most 5 files
\* of at most MAX_FILE_SIZE characters (plus the truncation mark) are read,
\* so MAX_CONTEXT_SIZE never stops the loop.
get_repo_context(files, relevant) ==
    {p \in relevant : is_safe_to_modify(p) /\ p \in files}

NoPlan == [files |-> <<>>, steps |-> FALSE]

\* what the planner call gives: "raise" for an exception of the call or of
\* the parsing, otherwise the paths of plan["files"] and whether "steps" is there
PlannerResponses ==
    {[kind |-> "raise", files |-> <<>>, steps |-> FALSE]}
    \cup {[kind |-> "json", files |-> fs, steps |-> st] :
             fs \in PlanSeqs, st \in BOOLEAN}

Min(a, b) == IF a < b THEN a ELSE b

\* mutant: the planned files are not checked against the context
create_implementation_plan_Unvalidated(ctx, resp) ==
    IF ctx = {} THEN NoPlan
    ELSE IF resp.kind = "raise" THEN NoPlan
    ELSE IF resp.files = <<>> THEN NoPlan
    ELSE [files |-> SubSeq(resp.files, 1,
                           Min(MaxPlannedFiles, Len(resp.files))),
          steps |-> resp.steps]

create_implementation_plan(ctx, resp) ==
    IF ctx = {} THEN NoPlan
    ELSE IF resp.kind = "raise" THEN NoPlan
    ELSE IF resp.files = <<>> THEN NoPlan
    ELSE LET InContext(p) == p \in ctx
             valid_files == SelectSeq(resp.files, InContext)
         IN  IF valid_files = <<>> THEN NoPlan
             ELSE [files |-> SubSeq(valid_files, 1,
                                    Min(MaxPlannedFiles, Len(valid_files))),
                   steps |-> resp.steps]

Range(s) == {s[i] : i \in 1..Len(s)}

\* keys of the dict implement_changes returns, in insertion order: the
\* model call of plan file i succeeded iff i \in okCalls
RECURSIVE implement_changes(_, _, _)
implement_changes(files, okCalls, i) ==
    IF i > Len(files) THEN <<>>
    ELSE LET rest == implement_changes(files, okCalls, i + 1)
             NotThis(p) == p # files[i]
         IN  IF i \in okCalls
             THEN <<files[i]>> \o SelectSeq(rest, NotThis)
             ELSE rest

\* the review critique_and_refine stores when the call or the parsing fails
FallbackReview == [rri |-> FALSE, summary |-> TRUE, refined |-> TRUE]

\* reviews dict: parsed gives the parsed response per file, failed the
\* files whose critic call raised
critique_and_refine(impl, parsed, failed) ==
    [p \in Range(impl) |-> IF p \in failed THEN FallbackReview ELSE parsed[p]]

needs_re_implementation(rv) == \E p \in DOMAIN rv : rv[p].rri

\* file_path.endswith('.py') and the like
EndsWith(p, ext) ==
    Len(p) >= 2 /\ p[Len(p) - 1] = "." /\ p[Len(p)] = ext

\* mutant: .json files are not parsed
validate_changes_SkipsJson(files, present, broken) ==
    \A p \in files :
        /\ p \in present
        /\ ~(EndsWith(p, "py") /\ p \in broken)

\* present: files that exist in the clone; broken: files whose content does
\* not compile (.py) or parse (.json)
validate_changes(files, present, broken) ==
    \A p \in files :
        /\ p \in present
        /\ ~((EndsWith(p, "py") \/ EndsWith(p, "json")) /\ p \in broken)

\* mutant: the clone is attempted without the fork
AfterStage_SkipsFork(s) ==
    CASE s = "classify" -> "clone"
      [] s = "fork" -> "clone"
      [] s = "clone" -> "context"
      [] s = "context" -> "plan"
      [] s = "plan" -> "implement"
      [] s = "implement" -> "critique"
      [] s = "critique" -> "apply"
      [] s = "apply" -> "validate"
      [] s = "validate" -> "git"
      [] s = "git" -> "pr"

\* the straight-line order of the stages in process_issue: the stage that
\* follows stage s when s neither returns nor raises
AfterStage(s) ==
    CASE s = "classify" -> "fork"
      [] s = "fork" -> "clone"
      [] s = "clone" -> "context"
      [] s = "context" -> "plan"
      [] s = "plan" -> "implement"
      [] s = "implement" -> "critique"
      [] s = "critique" -> "apply"
      [] s = "apply" -> "validate"
      [] s = "validate" -> "git"
      [] s = "git" -> "pr"

\* mutant: re-implementation is repeated as long as a review asks for it
AfterCritique_Loops(calls, rv) ==
    IF needs_re_implementation(rv) THEN "implement" ELSE "apply"

\* what follows a call of critique_and_refine: calls is the number of
\* earlier calls in this run, rv the reviews it returned
AfterCritique(calls, rv) ==
    IF calls = 0 /\ needs_re_implementation(rv)
    THEN "implement"
    ELSE AfterStage("critique")

\* mutant: the script searches again after an issue was processed
MainAfterProcess_Loops == "start"

\* where __main__ goes after the finally block of the process_issue call
MainAfterProcess == "end"

\* mutant: an exception escaping process_issue skips the finally block
MainAfterOutcome_SkipsOnError(o) == IF o = "raised" THEN "end" ELSE "finally"

\* where __main__ goes when process_issue ends with outcome o: the try
\* statement has a finally block, entered after a return and after the except
MainAfterOutcome(o) == "finally"

----------------------------------------------------------------------------
(* State *)

EmptyReviews == [p \in {} |-> FallbackReview]

runVars == <<taskType, tempDir, repoContext, plan, implementations, reviews,
             written, committed, pushed, prRequested, outcome, stages,
             llmRaised, implCalls, critCalls, firstNeeds, implFailedAll,
             modifiedFiles>>

\* the state of the stand-alone calls and of the rate limiter
otherVars == <<input, output, clock, rateLimiter, requestStarts>>

\* modified_files before it is assigned
Unbound == [evaluated |-> FALSE, bound |-> FALSE, files |-> {}]

\* the state of a run that has not started
RunInit ==
    /\ taskType = "none"
    /\ tempDir = "none"
    /\ repoContext = {}
    /\ plan = NoPlan
    /\ implementations = <<>>
    /\ reviews = EmptyReviews
    /\ written = {}
    /\ committed = FALSE
    /\ pushed = FALSE
    /\ prRequested = FALSE
    /\ outcome = "none"
    /\ stages = <<>>
    /\ llmRaised = {}
    /\ implCalls = 0
    /\ critCalls = 0
    /\ firstNeeds = FALSE
    /\ implFailedAll = FALSE
    /\ modifiedFiles = Unbound

\* no stand-alone call was made, the rate limiter was just constructed
OtherInit ==
    /\ input = <<>>
    /\ output = <<>>
    /\ clock = 0
    /\ rateLimiter = [flash_requests |-> <<>>, pro_requests |-> <<>>]
    /\ requestStarts = <<>>

\* the file a first invocation can find: none, an unreadable one, an empty set
InitialFiles ==
    {f \in FileStates : f.urls = {}}

Init ==
    /\ processedFile \in InitialFiles
    /\ pc = "start"
    /\ invocation = 1
    /\ issue = NoIssue
    /\ processCalls = [u \in Urls |-> 0]
    /\ runProcess = 0
    /\ runAdds = 0
    /\ path = <<>>
    /\ safe = "unchecked"
    /\ RunInit
    /\ OtherInit

\* shutil.rmtree(temp_dir, ignore_errors=True); return
CleanupAndReturn ==
    /\ tempDir' = "removed"
    /\ outcome' = "returned"
    /\ pc' = MainAfterOutcome("returned")

\* return before the clone directory exists
Return ==
    /\ outcome' = "returned"
    /\ pc' = MainAfterOutcome("returned")
    /\ UNCHANGED tempDir

\* list(name.keys()) evaluated in process_issue after the push: the keys
\* of the dict the name is bound to, bound FALSE when the name is not bound
\* (NameError); rv is the reviews dict final_implementations was built from
KeysOf(name, rv) ==
    IF name \in ProcessIssueLocals
       /\ name \in {"final_implementations", "reviews", "implementations"}
    THEN [evaluated |-> TRUE, bound |-> TRUE, files |-> DOMAIN rv]
    ELSE [evaluated |-> TRUE, bound |-> FALSE, files |-> {}]

\* an exception leaves process_issue
Raise ==
    /\ outcome' = "raised"
    /\ pc' = MainAfterOutcome("raised")
    /\ UNCHANGED tempDir

----------------------------------------------------------------------------
(* __main__ *)

\* issue_to_process = find_github_issues(); process_issue is entered when
\* an issue was found
Find ==
    /\ pc = "start"
    /\ \E resp \in SearchResponses :
          LET u == find_github_issues(processedFile, resp)
          IN  /\ issue' = u
              /\ IF u = NoIssue
                 THEN /\ pc' = "end"
                      /\ UNCHANGED <<processCalls, runProcess>>
                 ELSE /\ pc' = "classify"
                      /\ processCalls' = [processCalls EXCEPT ![u] = @ + 1]
                      /\ runProcess' = runProcess + 1
    /\ UNCHANGED <<processedFile, invocation, runAdds, path, safe, otherVars,
                   runVars>>

\* finally: add_issue_to_processed(issue_to_process.get('html_url'))
Finally ==
    /\ pc = "finally"
    /\ processedFile' = add_issue_to_processed(processedFile, issue)
    /\ runAdds' = runAdds + 1
    /\ pc' = MainAfterProcess
    /\ UNCHANGED <<invocation, issue, processCalls, runProcess, path, safe,
                   otherVars, runVars>>

\* the script is started again
NextInvocation ==
    /\ pc = "end"
    /\ invocation < MaxInvocations
    /\ invocation' = invocation + 1
    /\ pc' = "start"
    /\ issue' = NoIssue
    /\ runProcess' = 0
    /\ runAdds' = 0
    /\ taskType' = "none"
    /\ tempDir' = "none"
    /\ repoContext' = {}
    /\ plan' = NoPlan
    /\ implementations' = <<>>
    /\ reviews' = EmptyReviews
    /\ written' = {}
    /\ committed' = FALSE
    /\ pushed' = FALSE
    /\ prRequested' = FALSE
    /\ outcome' = "none"
    /\ stages' = <<>>
    /\ llmRaised' = {}
    /\ implCalls' = 0
    /\ critCalls' = 0
    /\ firstNeeds' = FALSE
    /\ implFailedAll' = FALSE
    /\ modifiedFiles' = Unbound
    /\ UNCHANGED <<processedFile, processCalls, path, safe, otherVars>>

----------------------------------------------------------------------------
(* process_issue *)

mainVars == <<processedFile, invocation, issue, processCalls, runProcess,
              runAdds, path, safe, otherVars>>

Classify ==
    /\ pc = "classify"
    /\ stages' = Append(stages, "classify")
    /\ \E resp \in ClassifierResponses :
          /\ taskType' = classify_task(resp)
          /\ llmRaised' = IF resp = "raise"
                          THEN llmRaised \cup {"classify"} ELSE llmRaised
          /\ IF classify_task(resp) = "UNSUPPORTED"
             THEN Return
             ELSE pc' = AfterStage("classify") /\ UNCHANGED <<outcome, tempDir>>
    /\ UNCHANGED <<mainVars, modifiedFiles, repoContext, plan, implementations, reviews,
                   written, committed, pushed, prRequested, implCalls,
                   critCalls, firstNeeds, implFailedAll>>

Fork ==
    /\ pc = "fork"
    /\ stages' = Append(stages, "fork")
    /\ \E resp \in {"ok", "status", "raise"} :
          IF resp = "ok"
          THEN pc' = AfterStage("fork") /\ UNCHANGED <<outcome, tempDir>>
          ELSE Return
    /\ UNCHANGED <<mainVars, modifiedFiles, taskType, repoContext, plan, implementations,
                   reviews, written, committed, pushed, prRequested,
                   llmRaised, implCalls, critCalls, firstNeeds,
                   implFailedAll>>

\* git clone, remote add, fetch, merge
Clone ==
    /\ pc = "clone"
    /\ stages' = Append(stages, "clone")
    /\ \E ok \in BOOLEAN :
          IF ok
          THEN /\ tempDir' = "exists"
               /\ pc' = AfterStage("clone")
               /\ UNCHANGED outcome
          ELSE CleanupAndReturn
    /\ UNCHANGED <<mainVars, modifiedFiles, taskType, repoContext, plan, implementations,
                   reviews, written, committed, pushed, prRequested,
                   llmRaised, implCalls, critCalls, firstNeeds,
                   implFailedAll>>

\* get_repo_structure, select_relevant_files, get_repo_context
BuildContext ==
    /\ pc = "context"
    /\ stages' = Append(stages, "context")
    /\ \E raised \in BOOLEAN, selected \in SUBSET RepoPaths,
          files \in SUBSET RepoPaths :
          LET relevant == IF raised THEN {} ELSE selected
              ctx == get_repo_context(files, relevant)
          IN  /\ raised => selected = {}
              /\ repoContext' = ctx
              /\ llmRaised' = IF raised
                              THEN llmRaised \cup {"select"} ELSE llmRaised
              /\ IF ctx = {}
                 THEN CleanupAndReturn
                 ELSE pc' = AfterStage("context") /\ UNCHANGED <<outcome, tempDir>>
    /\ UNCHANGED <<mainVars, modifiedFiles, taskType, plan, implementations, reviews,
                   written, committed, pushed, prRequested, implCalls,
                   critCalls, firstNeeds, implFailedAll>>

Plan ==
    /\ pc = "plan"
    /\ stages' = Append(stages, "plan")
    /\ \E resp \in PlannerResponses, raised \in BOOLEAN :
          LET p == create_implementation_plan(repoContext, resp)
          IN  /\ raised => resp.kind = "raise"
              /\ plan' = p
              /\ llmRaised' = IF raised
                              THEN llmRaised \cup {"plan"} ELSE llmRaised
              /\ IF p = NoPlan
                 THEN CleanupAndReturn
                 ELSE pc' = AfterStage("plan") /\ UNCHANGED <<outcome, tempDir>>
    /\ UNCHANGED <<mainVars, modifiedFiles, taskType, repoContext,
                   implementations, reviews,
                   written, committed, pushed, prRequested, implCalls,
                   critCalls, firstNeeds, implFailedAll>>

\* implement_changes, first or second call
Implement ==
    /\ pc = "implement"
    /\ stages' = Append(stages, "implement")
    /\ implCalls' = implCalls + 1
    /\ \E okCalls \in SUBSET (1..Len(plan.files)) :
          LET impl == implement_changes(plan.files, okCalls, 1)
          IN  /\ implementations' = impl
              /\ llmRaised' = IF okCalls # 1..Len(plan.files)
                              THEN llmRaised \cup {"implement"}
                              ELSE llmRaised
              /\ implFailedAll' = (implFailedAll \/ okCalls = {})
              /\ IF implCalls = 0 /\ impl = <<>>
                 THEN CleanupAndReturn
                 ELSE pc' = AfterStage("implement") /\ UNCHANGED <<outcome, tempDir>>
    /\ UNCHANGED <<mainVars, modifiedFiles, taskType, repoContext, plan, reviews, written,
                   committed, pushed, prRequested, critCalls, firstNeeds>>

\* critique_and_refine, first or second call, and the code of process_issue
\* up to the next call
Critique ==
    /\ pc = "critique"
    /\ stages' = Append(stages, "critique")
    /\ critCalls' = critCalls + 1
    /\ IF implementations # <<>> /\ ~plan.steps
       THEN \* plan['steps'] in the prompt of the first file: KeyError
            /\ Raise
            /\ UNCHANGED <<reviews, llmRaised, firstNeeds>>
       ELSE \E parsed \in [Range(implementations) -> Reviews],
               failed \in SUBSET Range(implementations) :
               LET rv == critique_and_refine(implementations, parsed, failed)
               IN  /\ reviews' = rv
                   /\ llmRaised' = IF failed # {}
                                   THEN llmRaised \cup {"critique"}
                                   ELSE llmRaised
                   /\ firstNeeds' = IF critCalls = 0
                                    THEN needs_re_implementation(rv)
                                    ELSE firstNeeds
                   /\ IF /\ AfterCritique(critCalls, rv) = "implement"
                         /\ \E p \in DOMAIN rv : ~rv[p].summary
                      THEN Raise  \* r["review_summary"]: KeyError
                      ELSE /\ pc' = AfterCritique(critCalls, rv)
                           /\ UNCHANGED <<outcome, tempDir>>
    /\ UNCHANGED <<mainVars, modifiedFiles, taskType, repoContext, plan, implementations,
                   written, committed, pushed, prRequested, implCalls,
                   implFailedAll>>

\* final_implementations and apply_changes
Apply ==
    /\ pc = "apply"
    /\ IF \E p \in DOMAIN reviews : ~reviews[p].refined
       THEN \* review["refined_code"]: KeyError, apply_changes is not called
            /\ Raise
            /\ UNCHANGED <<written, stages>>
       ELSE /\ stages' = Append(stages, "write")
            /\ \E failAt \in 0..Len(implementations) :
                  IF failAt = 0
                  THEN /\ written' = Range(implementations)
                       /\ pc' = AfterStage("apply")
                       /\ UNCHANGED <<outcome, tempDir>>
                  ELSE \* the write of file failAt raises, apply_changes re-raises
                       /\ written' = Range(SubSeq(implementations, 1,
                                                  failAt - 1))
                       /\ Raise
    /\ UNCHANGED <<mainVars, modifiedFiles, taskType, repoContext, plan, implementations,
                   reviews, committed, pushed, prRequested, llmRaised,
                   implCalls, critCalls, firstNeeds, implFailedAll>>

Validate ==
    /\ pc = "validate"
    /\ stages' = Append(stages, "validate")
    /\ \E broken \in SUBSET written :
          IF validate_changes(written, written, broken)
          THEN pc' = AfterStage("validate") /\ UNCHANGED <<outcome, tempDir>>
          ELSE CleanupAndReturn
    /\ UNCHANGED <<mainVars, modifiedFiles, taskType, repoContext, plan, implementations,
                   reviews, written, committed, pushed, prRequested,
                   llmRaised, implCalls, critCalls, firstNeeds,
                   implFailedAll>>

\* git config, checkout -b, add, status, commit, push
GitPush ==
    /\ pc = "git"
    /\ stages' = Append(stages, "git")
    /\ \E res \in {"fail", "nochanges", "commitfail", "pushfail", "ok"} :
          /\ written = {} => res \in {"fail", "nochanges"}
          /\ committed' = (res \in {"pushfail", "ok"})
          /\ pushed' = (res = "ok")
          /\ IF res = "ok"
             THEN pc' = AfterStage("git") /\ UNCHANGED <<outcome, tempDir>>
             ELSE CleanupAndReturn
    /\ UNCHANGED <<mainVars, modifiedFiles, taskType, repoContext, plan, implementations,
                   reviews, written, prRequested, llmRaised, implCalls,
                   critCalls, firstNeeds, implFailedAll>>

\* the try block that builds and posts the pull request, and the cleanup.
\* The POST is reached when the GET of the repository succeeds and every
\* name read before the POST is bound.
CreatePR ==
    /\ pc = "pr"
    /\ stages' = Append(stages, "pr")
    /\ \E getOk \in BOOLEAN :
          /\ modifiedFiles' = IF getOk
                              THEN KeysOf("refined_implementations", reviews)
                              ELSE Unbound
          /\ prRequested' = (getOk /\ modifiedFiles'.bound)
    /\ CleanupAndReturn
    /\ UNCHANGED <<mainVars, taskType, repoContext, plan, implementations,
                   reviews, written, committed, pushed, llmRaised, implCalls,
                   critCalls, firstNeeds, implFailedAll>>

Next ==
    \/ Find
    \/ Classify
    \/ Fork
    \/ Clone
    \/ BuildContext
    \/ Plan
    \/ Implement
    \/ Critique
    \/ Apply
    \/ Validate
    \/ GitPush
    \/ CreatePR
    \/ Finally
    \/ NextInvocation

Spec == Init /\ [][Next]_vars

----------------------------------------------------------------------------
(* is_safe_to_modify on its own *)

SafeInit ==
    /\ processedFile = [kind |-> "missing", urls |-> {}]
    /\ pc = "start"
    /\ invocation = 1
    /\ issue = NoIssue
    /\ processCalls = [u \in Urls |-> 0]
    /\ runProcess = 0
    /\ runAdds = 0
    /\ path \in SafePaths
    /\ safe = "unchecked"
    /\ RunInit
    /\ OtherInit

CheckSafe ==
    /\ safe = "unchecked"
    /\ safe' = IF is_safe_to_modify(path) THEN "safe" ELSE "unsafe"
    /\ UNCHANGED <<processedFile, pc, invocation, issue, processCalls,
                   runProcess, runAdds, path, runVars, otherVars>>

SafeNext == CheckSafe

SafeSpec == SafeInit /\ [][SafeNext]_vars

----------------------------------------------------------------------------
(* Properties *)

Processed == get_processed_issues(processedFile)

\* C1: once an issue URL is in the persisted processed-issues set it stays
\* there, find_github_issues never returns it and process_issue is never
\* called for it again, in this or any later invocation.
C1_NeverReprocessed ==
    [][\A u \in Processed :
          /\ u \in get_processed_issues(processedFile')
          /\ pc = "start" => issue' # u
          /\ processCalls'[u] = processCalls[u]]_vars

\* a later invocation found an issue while the processed set was not empty
C1_Witness ==
    /\ invocation = 2
    /\ pc = "classify"
    /\ Processed # {}
    /\ issue \notin Processed

\* C2: the persisted set is append-only: no step removes a URL, and the
\* step that calls add_issue_to_processed(u) leaves u in the set together
\* with every URL that was in it.
C2_AppendOnly ==
    [][/\ Processed \subseteq get_processed_issues(processedFile')
       /\ pc = "finally" =>
             get_processed_issues(processedFile') = Processed \cup {issue}]_vars

\* a second URL was added and the first one kept
C2_Witness ==
    /\ processedFile.kind = "valid"
    /\ Cardinality(processedFile.urls) = 2
    /\ runAdds = 1

\* C3: every path apply_changes writes to, and every key of
\* final_implementations, is a key of RepoContext, and every key of
\* RepoContext passed is_safe_to_modify.
C3_WritesOnlyContextFiles ==
    /\ written \subseteq repoContext
    /\ DOMAIN reviews \subseteq repoContext
    /\ \A p \in repoContext : is_safe_to_modify(p)

\* two files were written
C3_Witness ==
    /\ Cardinality(written) = 2
    /\ pc = "validate"

\* the directory components of p: all components but the file name
DirComponents(p) ==
    {SplitPath(p)[i] : i \in 1..(Len(SplitPath(p)) - 1)}

DenylistedDirs ==
    BLACKLISTED_DIRS \cup {<<".", "env">>, <<".", "aws">>, <<".", "ssh">>}

\* the paths the denylist names: a denylisted directory among the
\* components, an unsafe file name, or a sensitive extension
Denylisted(p) ==
    \/ DirComponents(p) \cap DenylistedDirs # {}
    \/ SplitPath(p)[Len(SplitPath(p))] \in UNSAFE_FILE_NAMES
    \/ /\ Suffix(p) # <<>>
       /\ Suffix(p)[2] \in UnsafeExtensions

\* C4: is_safe_to_modify returns False for every path with a denylisted
\* directory among its components (the first one included), an unsafe file
\* name or a sensitive extension.
C4_DenylistRejected ==
    (safe # "unchecked" /\ Denylisted(path)) => safe = "unsafe"

\* C5: a run in which everything up to and including the push succeeded
\* has sent the pull-request creation request when it ends.
C5_PullRequestSent ==
    (pushed /\ outcome # "none") => prRequested

\* every executed stage that order names comes after all the stages order
\* names before it
StagesInOrder(order) ==
    \A i \in 1..Len(stages) : \A k \in 1..Len(order) :
        stages[i] = order[k] =>
            \A m \in 1..(k - 1) : \E j \in 1..(i - 1) : stages[j] = order[m]

\* the pipeline as the specification lists it
SpecPipeline ==
    <<"fork", "clone", "context", "classify", "plan", "implement",
      "critique", "write", "git", "pr">>

\* the pipeline with the classifier first
CodePipeline ==
    <<"classify", "fork", "clone", "context", "plan", "implement",
      "critique", "write", "git", "pr">>

\* C6 as stated: the classifier call comes only after fork, clone and
\* context building, and planner, implementer, critic, file writer, git
\* commit/push and PR opener follow in this order.
C6_SpecStageOrder == StagesInOrder(SpecPipeline)

\* C6, amended: the classifier call comes first, then fork, clone,
\* context building, planner, implementer, critic, file writer, git
\* commit/push and the pull-request block, in this order.
C6_CodeStageOrder == StagesInOrder(CodePipeline)

\* a run went through every stage
C6_Witness ==
    /\ "pr" \in Range(stages)
    /\ outcome = "returned"

\* C7: implement_changes and critique_and_refine are each called at most
\* twice in a run, the second round only when a first review asked for
\* re-implementation, and after the second round the run goes on with the
\* file writer whatever the second reviews ask for.
C7_AtMostOneRetry ==
    /\ implCalls <= 2
    /\ critCalls <= 2
    /\ implCalls = 2 => firstNeeds
    /\ critCalls = 2 => firstNeeds
    /\ (critCalls = 2 /\ outcome = "none") =>
           pc \in {"apply", "validate", "git", "pr"}

\* files were written after a second round whose reviews ask for another one
C7_Witness ==
    /\ critCalls = 2
    /\ written # {}
    /\ \E p \in DOMAIN reviews : reviews[p].rri

NothingPublished ==
    /\ written = {}
    /\ ~committed
    /\ ~pushed
    /\ ~prRequested

\* C8 as stated: a model call that raised in any stage means no file is
\* written, nothing is committed or pushed and no pull request requested.
C8_AnyLlmErrorAborts ==
    llmRaised # {} => NothingPublished

\* C8, amended: a model call that raised in the classifier, the file
\* selection or the planner, or for every file of one implement_changes
\* call, means no file is written, nothing is committed or pushed and no
\* pull request requested.
C8_AbortingLlmErrors ==
    (llmRaised \cap {"classify", "select", "plan"} # {} \/ implFailedAll)
        => NothingPublished

\* the second implement_changes call failed for every file and the run ended
C8_Witness ==
    /\ implFailedAll
    /\ implCalls = 2
    /\ outcome = "returned"
    /\ pc = "end"

\* C9: whatever the planner answers, a plan returned by
\* create_implementation_plan has one or two files, all keys of the
\* context; no plan is returned when no planned path is in the context,
\* and a run without a plan ends without writing a file.
C9_PlanWithinContext ==
    /\ pc = "plan" =>
          \A resp \in PlannerResponses :
              LET p == create_implementation_plan(repoContext, resp)
              IN  /\ p # NoPlan =>
                        /\ Len(p.files) \in 1..2
                        /\ Range(p.files) \subseteq repoContext
                  /\ Range(resp.files) \cap repoContext = {} => p = NoPlan
    /\ plan # NoPlan =>
          /\ Len(plan.files) \in 1..2
          /\ Range(plan.files) \subseteq repoContext
    /\ ("plan" \in Range(stages) /\ plan = NoPlan) =>
          /\ written = {}
          /\ outcome = "returned"

\* the planner step ran with a context that holds some but not all paths
C9_Witness ==
    /\ "plan" \in Range(stages)
    /\ plan = NoPlan
    /\ repoContext # {}
    /\ pc = "end"

\* C10: one invocation calls process_issue at most once and
\* add_issue_to_processed at most once.
C10_OneIssuePerInvocation ==
    /\ runProcess <= 1
    /\ runAdds <= 1
    /\ runAdds <= runProcess

\* an invocation processed an issue and recorded it
C10_Witness ==
    /\ runProcess = 1
    /\ runAdds = 1
    /\ pc = "end"

----------------------------------------------------------------------------
(* select_relevant_files on its own *)

StandAloneInit ==
    /\ processedFile = [kind |-> "missing", urls |-> {}]
    /\ pc = "start"
    /\ invocation = 1
    /\ issue = NoIssue
    /\ processCalls = [u \in Urls |-> 0]
    /\ runProcess = 0
    /\ runAdds = 0
    /\ path = <<>>
    /\ safe = "unchecked"
    /\ RunInit
    /\ output = <<>>
    /\ clock = 0
    /\ rateLimiter = [flash_requests |-> <<>>, pro_requests |-> <<>>]
    /\ requestStarts = <<>>

SelectInit ==
    /\ StandAloneInit
    /\ input \in SelectResponses

CallSelect ==
    /\ output = <<>>
    /\ output' = <<select_relevant_files(input)>>
    /\ UNCHANGED <<processedFile, pc, invocation, issue, processCalls,
                   runProcess, runAdds, path, safe, runVars, input, clock,
                   rateLimiter, requestStarts>>

SelectNext == CallSelect

SelectSpec == SelectInit /\ [][SelectNext]_vars

----------------------------------------------------------------------------
(* Properties of the stand-alone calls *)

\* toks[i..j] is the text of a JSON list of strings
IsStringListAt(toks, i, j) ==
    /\ toks[i].t = "["
    /\ toks[j].t = "]"
    /\ \/ j = i + 1
       \/ /\ (j - i) % 2 = 0
          /\ \A k \in (i + 1)..(j - 1) :
                IF (k - i) % 2 = 1 THEN toks[k].t = "str"
                ELSE toks[k].t = ","

\* the string literals of the list at toks[i..j]
ListEntries(toks, i, j) ==
    [k \in 1..((j - i) \div 2) |-> toks[i + 2 * k - 1]]

FirstFive(l) == SubSeq(l, 1, IF Len(l) < 5 THEN Len(l) ELSE 5)

\* the spans of the response that hold a JSON list of strings
StringListSpans(toks) ==
    {ij \in (1..Len(toks)) \X (1..Len(toks)) :
        ij[1] < ij[2] /\ IsStringListAt(toks, ij[1], ij[2])}

\* the span from the first "[" to the first "]" after it, <<>> if none
FirstBracketSpan(toks) ==
    IF \E i \in 1..Len(toks) : toks[i].t = "["
    THEN LET i == CHOOSE a \in 1..Len(toks) :
                     toks[a].t = "[" /\ \A b \in 1..(a - 1) : toks[b].t # "["
         IN  IF \E j \in (i + 1)..Len(toks) : toks[j].t = "]"
             THEN <<i, CHOOSE a \in (i + 1)..Len(toks) :
                          /\ toks[a].t = "]"
                          /\ \A b \in (i + 1)..(a - 1) : toks[b].t # "]">>
             ELSE <<>>
    ELSE <<>>

\* C11 as stated: the result has at most 5 entries, all strings; a response
\* that contains a JSON list of strings gives the first 5 entries of that
\* list; a failed call or a response without one gives the empty list.
C11_ParsesAnyStringList ==
    output # <<>> =>
        /\ Len(output[1]) <= 5
        /\ AllStrings(output[1])
        /\ input.kind = "raise" => output[1] = <<>>
        /\ input.kind = "text" =>
              IF StringListSpans(input.tokens) = {}
              THEN output[1] = <<>>
              ELSE \E ij \in StringListSpans(input.tokens) :
                      output[1] = FirstFive(ListEntries(input.tokens,
                                                        ij[1], ij[2]))

\* C11, amended: the result has at most 5 entries, all strings; when the
\* text from the first "[" of the response to the first "]" after it is a
\* JSON list of strings the result is the first 5 entries of that list; in
\* every other case, a failed call included, it is the empty list.
C11_ParsesFirstBracketSpan ==
    output # <<>> =>
        /\ Len(output[1]) <= 5
        /\ AllStrings(output[1])
        /\ input.kind = "raise" => output[1] = <<>>
        /\ input.kind = "text" =>
              LET sp == FirstBracketSpan(input.tokens)
              IN  IF sp # <<>> /\ IsStringListAt(input.tokens, sp[1], sp[2])
                  THEN output[1] = FirstFive(ListEntries(input.tokens,
                                                         sp[1], sp[2]))
                  ELSE output[1] = <<>>

\* a list of more than 5 strings was cut to 5
C11_Witness ==
    /\ output # <<>>
    /\ input.kind = "text"
    /\ Len(input.tokens) > 11
    /\ Len(output[1]) = 5

\* C13: is_safe_to_modify returns True for a .jsx file outside every
\* denylisted directory that has no unsafe file name.
C13_JsxIsSafe ==
    (/\ safe # "unchecked"
     /\ EndsWith(path, "jsx")
     /\ DirComponents(path) \cap DenylistedDirs = {}
     /\ Basename(path) \notin UNSAFE_FILE_NAMES) => safe = "safe"

----------------------------------------------------------------------------
(* validate_changes on its own *)

\* a file of the clone: full_path.exists(), whether read_text() returns,
\* whether compile() accepts the content, whether json.loads() accepts it
CloneFiles ==
    {[exists |-> FALSE, readable |-> FALSE, compiles |-> FALSE, parses |-> FALSE],
     [exists |-> TRUE, readable |-> FALSE, compiles |-> FALSE, parses |-> FALSE]}
    \cup {[exists |-> TRUE, readable |-> TRUE, compiles |-> c, parses |-> j] :
             c \in BOOLEAN, j \in BOOLEAN}

\* an implementation entry: empty, or holding code and explanation
ImplementationEntries == {"empty", "code"}

\* implementations dictionaries over the repository paths
ImplementationDicts ==
    UNION {[ks -> ImplementationEntries] : ks \in SUBSET RepoPaths}

\* the files for which full_path.exists() holds
ExistingFiles(clone) == {p \in DOMAIN clone : clone[p].exists}

\* the files whose syntax check raises: read_text(), compile() for .py,
\* json.loads() for .json
FailingFiles(clone) ==
    {p \in DOMAIN clone :
        \/ EndsWith(p, "py") /\ ~(clone[p].readable /\ clone[p].compiles)
        \/ EndsWith(p, "json") /\ ~(clone[p].readable /\ clone[p].parses)}

ValidateInit ==
    /\ StandAloneInit
    /\ input \in [implementations : ImplementationDicts,
                  clone : [RepoPaths -> CloneFiles]]

CallValidate ==
    /\ output = <<>>
    /\ output' = <<validate_changes(DOMAIN input.implementations,
                                    ExistingFiles(input.clone),
                                    FailingFiles(input.clone))>>
    /\ UNCHANGED <<processedFile, pc, invocation, issue, processCalls,
                   runProcess, runAdds, path, safe, runVars, input, clock,
                   rateLimiter, requestStarts>>

ValidateNext == CallValidate

ValidateSpec == ValidateInit /\ [][ValidateNext]_vars

\* C12: validate_changes returns False when some key of implementations is
\* missing from the clone, is a .py file that does not compile or is a .json
\* file that does not parse, and True otherwise, whatever the entries are.
C12_ValidateByKeysOnly ==
    output # <<>> =>
        (output[1] = FALSE <=>
            \E p \in DOMAIN input.implementations :
                LET f == input.clone[p]
                IN  \/ ~f.exists
                    \/ /\ p[Len(p)] = "py"
                       /\ p[Len(p) - 1] = "."
                       /\ ~(f.readable /\ f.compiles)
                    \/ /\ p[Len(p)] = "json"
                       /\ p[Len(p) - 1] = "."
                       /\ ~(f.readable /\ f.parses))

\* a .json file that does not parse, under an empty entry, fails the
\* validation on its own
C12_Witness ==
    /\ output = <<FALSE>>
    /\ \E p \in DOMAIN input.implementations :
          /\ input.implementations[p] = "empty"
          /\ p[Len(p)] = "json"
          /\ input.clone[p].readable
          /\ ~input.clone[p].parses
    /\ \A p \in DOMAIN input.implementations :
          /\ input.clone[p].exists
          /\ p[Len(p)] = "py" => input.clone[p].compiles

----------------------------------------------------------------------------
(* Properties of the pull-request body *)

\* C14: the list of modified files built for the pull-request body is
\* exactly the set of files apply_changes wrote in that run.
C14_ModifiedFilesAreWritten ==
    modifiedFiles.evaluated =>
        (modifiedFiles.bound /\ modifiedFiles.files = written)

----------------------------------------------------------------------------
(* Properties of the end of a run *)

\* C15: when the invocation ends after find_github_issues selected an
\* issue, the issue's URL is in the persisted processed set, whether
\* process_issue returned early, completed or raised.
C15_SelectedIssueRecorded ==
    (pc = "end" /\ issue # NoIssue) => issue \in Processed

\* an exception escaped process_issue and the issue was recorded all the same
C15_Witness ==
    /\ pc = "end"
    /\ outcome = "raised"
    /\ issue # NoIssue
    /\ issue \in Processed

\* C16: when process_issue has ended after the clone step started, the
\* temporary clone directory has been removed.
C16_TempDirRemoved ==
    (outcome # "none" /\ "clone" \in Range(stages)) => tempDir # "exists"

----------------------------------------------------------------------------
(* RateLimiter.wait_if_needed on its own; time in whole seconds *)

REQUESTS_PER_MINUTE_FLASH == 10

REQUESTS_PER_MINUTE_PRO == 5

\* wait_if_needed calls in one behaviour
MaxCalls == 11

\* the clock value after which no more time passes between calls
MaxClock == 3

\* seconds that may pass between two calls
Gaps == {1, 30}

\* the limit wait_if_needed compares with for a model type
RequestsPerMinute(model_type) ==
    IF model_type = "flash" THEN REQUESTS_PER_MINUTE_FLASH
    ELSE REQUESTS_PER_MINUTE_PRO

\* the list wait_if_needed filters and appends to for a model type
RequestsOf(rl, model_type) ==
    IF model_type = "flash" THEN rl.flash_requests ELSE rl.pro_requests

\* [r for r in requests if r > one_minute_ago]
RecentRequests(reqs, now) == SelectSeq(reqs, LAMBDA r : r > now - 60)

MinOf(s) == CHOOSE m \in Range(s) : \A x \in Range(s) : m <= x

\* the seconds wait_if_needed sleeps: max(1, 61 - (now - min(requests)))
\* when the recent requests reach the limit, none otherwise
SleepTime(reqs, limit, now) ==
    LET requests == RecentRequests(reqs, now)
    IN  IF Len(requests) >= limit
        THEN LET sleep_time == 61 - (now - MinOf(requests))
             IN  IF sleep_time > 1 THEN sleep_time ELSE 1
        ELSE 0

\* the time wait_if_needed appends to the list: now, read before the sleep
RecordedTime(now, wake) == now

RateInit ==
    /\ StandAloneInit
    /\ input \in {"flash", "pro"}

\* one wait_if_needed(input) call; the model request starts when it returns
WaitIfNeeded ==
    /\ Len(requestStarts) < MaxCalls
    /\ LET now == clock
           wake == now + SleepTime(RequestsOf(rateLimiter, input),
                                   RequestsPerMinute(input), now)
       IN  /\ clock' = wake
           /\ rateLimiter' =
                 IF input = "flash"
                 THEN [rateLimiter EXCEPT
                          !.flash_requests = Append(@, RecordedTime(now, wake))]
                 ELSE [rateLimiter EXCEPT
                          !.pro_requests = Append(@, RecordedTime(now, wake))]
           /\ requestStarts' = Append(requestStarts, wake)
    /\ UNCHANGED <<processedFile, pc, invocation, issue, processCalls,
                   runProcess, runAdds, path, safe, runVars, input, output>>

\* time passes between two calls
TimePasses ==
    /\ clock < MaxClock
    /\ \E d \in Gaps : clock' = clock + d
    /\ UNCHANGED <<processedFile, pc, invocation, issue, processCalls,
                   runProcess, runAdds, path, safe, runVars, input, output,
                   rateLimiter, requestStarts>>

RateNext ==
    \/ WaitIfNeeded
    \/ TimePasses

RateSpec == RateInit /\ [][RateNext]_vars

\* C17: among the request starts of one model type, no limit + 1 of them lie
\* within one 60-second window.
C17_WithinRateLimit ==
    \A i \in 1..Len(requestStarts) :
        i + RequestsPerMinute(input) <= Len(requestStarts) =>
            requestStarts[i + RequestsPerMinute(input)] - requestStarts[i] >= 60

----------------------------------------------------------------------------
(* find_github_issues on its own *)

FindInit ==
    /\ processedFile \in FileStates
    /\ pc = "start"
    /\ invocation = 1
    /\ issue = NoIssue
    /\ processCalls = [u \in Urls |-> 0]
    /\ runProcess = 0
    /\ runAdds = 0
    /\ path = <<>>
    /\ safe = "unchecked"
    /\ RunInit
    /\ input \in SearchResponses
    /\ output = <<>>
    /\ clock = 0
    /\ rateLimiter = [flash_requests |-> <<>>, pro_requests |-> <<>>]
    /\ requestStarts = <<>>

CallFind ==
    /\ output = <<>>
    /\ output' = <<find_github_issues(processedFile, input)>>
    /\ UNCHANGED <<processedFile, pc, invocation, issue, processCalls,
                   runProcess, runAdds, path, safe, runVars, input, clock,
                   rateLimiter, requestStarts>>

FindNext == CallFind

FindSpec == FindInit /\ [][FindNext]_vars

\* the item is not in the processed set and meets the candidate criteria
Qualifies(it) ==
    /\ it.html_url \notin Processed
    /\ it.comments <= 5
    /\ it.body # <<>>
    /\ it.body[1] >= 50
    /\ it.title = {}

\* C18: when a status-200 response holds an unprocessed item that meets the
\* candidate criteria, find_github_issues returns the first such item,
\* whatever the other items are, null bodies included.
C18_FirstQualifyingReturned ==
    (/\ output # <<>>
     /\ input.kind = "ok"
     /\ \E i \in 1..Len(input.items) : Qualifies(input.items[i]))
    => LET first == CHOOSE i \in 1..Len(input.items) :
                       /\ Qualifies(input.items[i])
                       /\ \A j \in 1..(i - 1) : ~Qualifies(input.items[j])
       IN  output[1] = input.items[first].html_url

====
